---- MODULE Spec2Model ----
(***************************************************************************)
(* Matrix-times-vector benchmark (assign1/mXv.c): the five multiplication  *)
(* kernels, the row partition and the in-place all-gather of the MPI       *)
(* kernels, and the benchmark driver run_programs / main.                  *)
(*                                                                         *)
(* A double is modelled by an integer: rand() / RAND_MAX by its numerator, *)
(* sums and products exactly.  Workers are the OpenMP threads of one       *)
(* process (program types 2 and 4, one shared result buffer) or the MPI    *)
(* ranks (program types 3 and 5, one result buffer per rank).              *)
(***************************************************************************)
EXTENDS Integers, Sequences, FiniteSets, TLC

\* ------------------------------------------------------------------ bounds
\* largest problem size N drawn for the kernels
MaxRows == 4
\* largest tile edge drawn for the tiled kernels
MaxTile == 2
\* largest number of MPI ranks run_programs is run on
MaxProcs == 3
\* largest number of MPI ranks the MPI kernels are run on for every N, and largest
\* number of processes the driver is run on for the variants without MPI kernel
MaxRanks == 2
\* largest number of OpenMP threads of a parallel region
MaxThreads == 2
\* largest N and largest number of ranks the row partition is computed for
MaxPartRows == 7
MaxPartProcs == 5
\* seeds given to srand are 0..MaxSeed
MaxSeed == 1
\* an indeterminate (uninitialised or out-of-range) cell reads as 0 or as MaxJunk
MaxJunk == 1
\* largest value of rand()
RAND_MAX == 7
\* tile edge of the kernel runs that carry data (TILE_SIZE scaled down)
SmallTile == 2
\* at most this many allocations fail in one program run
MaxFailures == 1
\* allocate_matrix is made to fail at its first malloc or at one of the rows 0..MaxFailRow
MaxFailRow == 0

\* ------------------------------------------------------- program constants
\* #define TILE_SIZE 16
TILE_SIZE == 16
\* the first size of main's loop, for (int N = 64; ...
FIRST_SIZE == 64
\* #define MAX_SIZE 32768, scaled down to two sizes: 64 and 128
MAX_SIZE == 128

VARIABLES
    program_type,   \* 1..5, the kernel run_programs selects
    N,              \* rows = cols of the call
    tile_size,      \* tile edge of the tiled kernels
    size,           \* number of workers (ranks, or threads of the parallel region)
    matrix,         \* matrix[a][b], filled by fill_random
    vector,         \* vector[b], filled by fill_random
    junk,           \* junk[b]: what an indeterminate cell of process b reads as
    result,         \* result[b][a]: result buffer of process b
    pc,             \* pc[w]: position of worker w in its kernel
    start,          \* start[w], end[w]: row range of rank w
    end,
    i,              \* loop variables of worker w
    j,
    ii,
    jj,
    acc,            \* acc[w]: the value of result[..] thread w has loaded for +=, 0
                    \* outside a +=
    todo,           \* iterations of the omp parallel for not yet handed to a thread
    touched,        \* touched[w]: rows a of result[a] worker w has read or written
    visits,         \* visits[b][<<r, c>>]: accumulation steps done on result[r] of
                    \* process b for column c
    sent,           \* sent[w]: the chunk rank w contributes to the all-gather
    first,          \* first[b][r]: what result[r] of process b held when the first
                    \* += on it loaded it, -1 before
    dpc,            \* dpc[r]: position of process r in main / run_programs
    curN,           \* curN[r]: N of main's loop in process r
    step,           \* step[r]: the statement of the switch case process r is at
    wait,           \* wait[r]: process r is inside a collective call
    ncoll,          \* ncoll[r]: collective calls process r has entered
    gatherN,        \* gatherN[r]: the N of the last MPI_Allgather process r entered
    nfail,          \* allocations that have failed so far
    failed,         \* failed[r]: the sizes at which an allocation of process r failed
    sink,           \* sink[r]: the lines process r has written to results.csv
    prebar,         \* prebar[r]: barriers before a kernel call process r has entered
    kdone,          \* kdone[r]: kernel calls process r has returned from
    nstart,         \* nstart[r]: start timestamps process r has taken
    nend,           \* nend[r]: end timestamps process r has taken
    heap            \* heap[r]: the malloc'ed blocks of process r that are not freed,
                    \* counted by kind: pointer arrays, matrix rows, vectors

kvars == <<program_type, N, tile_size, size, matrix, vector, junk, result, pc,
           start, end, i, j, ii, jj, acc, todo, touched, visits, sent, first>>

dvars == <<dpc, curN, step, wait, ncoll, gatherN, nfail, failed, sink, prebar, kdone,
           nstart, nend, heap>>

vars == <<kvars, dvars>>

\* ------------------------------------------------------- storage, fill_random
\* rand(): the (k+1)-th value after srand(seed), a Weyl sequence over 0..RAND_MAX
Rand(seed, k) == (seed + 5 * (k + 1)) % (RAND_MAX + 1)

\* fill_random: the matrix row by row, then the vector
FillMatrix(seed, n) == [a \in 0..(n - 1) |-> [b \in 0..(n - 1) |-> Rand(seed, a * n + b)]]

FillVector(seed, n) == [b \in 0..(n - 1) |-> Rand(seed, n * n + b)]

\* what the cells malloc hands out may hold: 0 (a fresh page) or something else
Junks == {0, MaxJunk}

\* allocate_vector: malloc leaves the contents indeterminate
AllocateVector(n, g) == [a \in 0..(n - 1) |-> g]

Workers == 0..(size - 1)

Distributed == program_type \in {3, 5}

Tiled == program_type \in {4, 5}

\* the process whose memory worker w works on
Buf(w) == IF Distributed THEN w ELSE 0

Bufs == {Buf(w) : w \in Workers}

\* ------------------------------------------------------------- partitioning
PartStart(n, sz, rank) == (n \div sz) * rank

\* mutant: the last rank does not take the remainder rows
PartEndNoRemainder(n, sz, rank) == (n \div sz) * (rank + 1)

PartEnd(n, sz, rank) == IF rank = sz - 1 THEN n ELSE (n \div sz) * (rank + 1)

\* recvcount of MPI_Allgather
ChunkLen(n, sz) == n \div sz

\* ------------------------------------------------------------ memory access
OutOfRange(a, b) == a >= N \/ b >= N

ReadMatrix(w, a, b) == IF OutOfRange(a, b) THEN junk[Buf(w)] ELSE matrix[a][b]

ReadVector(w, b) == IF b >= N THEN junk[Buf(w)] ELSE vector[b]

ReadResult(w, a) == IF a >= N THEN junk[Buf(w)] ELSE result[Buf(w)][a]

\* result[a] = v in the memory of worker w; a store past the end leaves the buffer as it is
WriteResult(w, a, v) ==
    IF a >= N THEN result ELSE [result EXCEPT ![Buf(w)][a] = v]

Term(w, a, b) == ReadMatrix(w, a, b) * ReadVector(w, b)

\* the pairs the accumulation step can be done for: the matrix and one tile beyond it
Pairs == (0..(N + tile_size - 1)) \X (0..(N + tile_size - 1))

\* mutant: the tile loops step by 1
TileOriginsUnit(n, t) == 0..(n - 1)

\* the values of the loop variable of  for (i = 0; i < n; i += t)
TileOrigins(n, t) == {a \in 0..(n - 1) : a % t = 0}

\* ------------------------------------------------------------- kernel state
\* the kernel specifications look at one kernel call: the driver is left out of them
DriverIdle ==
    /\ dpc = <<>>
    /\ curN = <<>>
    /\ step = <<>>
    /\ wait = <<>>
    /\ ncoll = <<>>
    /\ gatherN = <<>>
    /\ nfail = 0
    /\ failed = <<>>
    /\ sink = <<>>
    /\ prebar = <<>>
    /\ kdone = <<>>
    /\ nstart = <<>>
    /\ nend = <<>>
    /\ heap = <<>>

KernelInit(types, Ns, Ts, threads, ranks, seeds, junks) ==
    /\ program_type \in types
    /\ N \in Ns
    /\ tile_size \in Ts
    /\ size \in (IF program_type = 1 THEN {1}
                 ELSE IF program_type \in {2, 4} THEN threads ELSE ranks)
    /\ \E seed \in seeds :
          /\ matrix = FillMatrix(seed, N)
          /\ vector = FillVector(seed, N)
    /\ junk \in [Bufs -> junks]
    /\ result = [b \in Bufs |-> AllocateVector(N, junk[b])]
    /\ pc = [w \in Workers |->
               IF Distributed THEN "call"
               ELSE IF program_type = 1 THEN "for_i" ELSE "take"]
    /\ start = [w \in Workers |-> 0]
    /\ end = [w \in Workers |-> 0]
    /\ i = [w \in Workers |-> 0]
    /\ j = [w \in Workers |-> 0]
    /\ ii = [w \in Workers |-> 0]
    /\ jj = [w \in Workers |-> 0]
    /\ acc = [w \in Workers |-> 0]
    /\ todo = IF program_type = 2 THEN {<<a, 0>> : a \in 0..(N - 1)}
              ELSE IF program_type = 4
                   THEN TileOrigins(N, tile_size) \X TileOrigins(N, tile_size)
                   ELSE {}
    /\ touched = [w \in Workers |-> {}]
    /\ visits = [b \in Bufs |-> [p \in Pairs |-> 0]]
    /\ sent = [w \in Workers |-> <<>>]
    /\ first = [b \in Bufs |-> [a \in 0..(N - 1) |-> -1]]
    /\ DriverIdle

\* what a kernel step leaves alone: the parameters and inputs of the call, and the
\* state of the driver
params == <<program_type, N, tile_size, size, matrix, vector, junk, dvars>>

\* ----------------------------------------------------- the naive kernels
\* mpi_mvm, mpi_tiled_mvm: the row range of the rank
MpiEnter(w) ==
    /\ Distributed
    /\ pc[w] = "call"
    /\ start' = [start EXCEPT ![w] = PartStart(N, size, w)]
    /\ end' = [end EXCEPT ![w] = PartEnd(N, size, w)]
    /\ i' = [i EXCEPT ![w] = PartStart(N, size, w)]
    /\ pc' = [pc EXCEPT ![w] = "for_i"]
    /\ UNCHANGED <<params, result, j, ii, jj, acc, todo, touched, visits, sent, first>>

\* the bound of the row loop of worker w
RowBound(w) == IF Distributed THEN end[w] ELSE N

\* sequential_mvm, mpi_mvm: for (i ...) { result[i] = 0.0;
RowBegin(w) ==
    /\ program_type \in {1, 3}
    /\ pc[w] = "for_i"
    /\ i[w] < RowBound(w)
    /\ result' = WriteResult(w, i[w], 0)
    /\ touched' = [touched EXCEPT ![w] = @ \cup {i[w]}]
    /\ j' = [j EXCEPT ![w] = 0]
    /\ pc' = [pc EXCEPT ![w] = "for_j"]
    /\ UNCHANGED <<params, start, end, i, ii, jj, acc, todo, visits, sent, first>>

\* sequential_mvm: the row loop ends, the kernel returns
SeqReturn(w) ==
    /\ program_type = 1
    /\ pc[w] = "for_i"
    /\ i[w] >= N
    /\ pc' = [pc EXCEPT ![w] = "ret"]
    /\ UNCHANGED <<params, result, start, end, i, j, ii, jj, acc, todo, touched,
                   visits, sent, first>>

\* it comes before every other iteration of S in the order of the sequential loop
IsFirst(it, S) ==
    \A o \in S : it[1] < o[1] \/ (it[1] = o[1] /\ it[2] <= o[2])

\* the iterations a thread may be handed next: any one that is left (the schedule is
\* the runtime's); a region of one thread runs them in the order of the loop
Handout == IF size = 1 THEN {it \in todo : IsFirst(it, todo)} ELSE todo

\* openmp_mvm: a thread is handed one iteration of the parallel for
OmpTakeRow(w) ==
    /\ program_type = 2
    /\ pc[w] = "take"
    /\ \E it \in Handout :
          /\ todo' = todo \ {it}
          /\ i' = [i EXCEPT ![w] = it[1]]
          /\ result' = WriteResult(w, it[1], 0)
          /\ touched' = [touched EXCEPT ![w] = @ \cup {it[1]}]
    /\ j' = [j EXCEPT ![w] = 0]
    /\ pc' = [pc EXCEPT ![w] = "for_j"]
    /\ UNCHANGED <<params, start, end, ii, jj, acc, visits, sent, first>>

\* openmp_mvm, openmp_tiled_mvm: no iteration is left, the thread joins
OmpJoin(w) ==
    /\ program_type \in {2, 4}
    /\ pc[w] = "take"
    /\ todo = {}
    /\ pc' = [pc EXCEPT ![w] = "ret"]
    /\ UNCHANGED <<params, result, start, end, i, j, ii, jj, acc, todo, touched,
                   visits, sent, first>>

\* first after a += of worker w on result[a] has loaded it
FirstLoad(w, a) ==
    IF a < N /\ first[Buf(w)][a] = -1
    THEN [first EXCEPT ![Buf(w)][a] = result[Buf(w)][a]]
    ELSE first

\* the loop variables after the body at (i, j): j++, then the next row; a loop
\* variable whose loop has ended is out of scope and kept as 0
NaiveAdvance(w) ==
    IF j[w] + 1 < N
    THEN [pc |-> "for_j", i |-> i[w], j |-> j[w] + 1]
    ELSE IF program_type = 2
    THEN [pc |-> "take", i |-> 0, j |-> 0]
    ELSE [pc |-> "for_i", i |-> i[w] + 1, j |-> 0]

\* openmp_mvm, result[i] += ... : the load of result[i], which the threads share
NaiveLoad(w) ==
    /\ program_type = 2
    /\ pc[w] = "for_j"
    /\ acc' = [acc EXCEPT ![w] = ReadResult(w, i[w])]
    /\ touched' = [touched EXCEPT ![w] = @ \cup {i[w]}]
    /\ first' = FirstLoad(w, i[w])
    /\ pc' = [pc EXCEPT ![w] = "store"]
    /\ UNCHANGED <<params, result, start, end, i, j, ii, jj, todo, visits, sent>>

\* openmp_mvm, result[i] += matrix[i][j] * vector[j] : the store, then the loop steps
NaiveStore(w) ==
    /\ program_type = 2
    /\ pc[w] = "store"
    /\ result' = WriteResult(w, i[w], acc[w] + Term(w, i[w], j[w]))
    /\ LET nx == NaiveAdvance(w)
       IN  /\ pc' = [pc EXCEPT ![w] = nx.pc]
           /\ i' = [i EXCEPT ![w] = nx.i]
           /\ j' = [j EXCEPT ![w] = nx.j]
    /\ acc' = [acc EXCEPT ![w] = 0]
    /\ UNCHANGED <<params, start, end, ii, jj, todo, touched, visits, sent, first>>

\* sequential_mvm, mpi_mvm, result[i] += matrix[i][j] * vector[j] : one step, the
\* buffer is the worker's own
NaiveAdd(w) ==
    /\ program_type \in {1, 3}
    /\ pc[w] = "for_j"
    /\ result' = WriteResult(w, i[w], ReadResult(w, i[w]) + Term(w, i[w], j[w]))
    /\ touched' = [touched EXCEPT ![w] = @ \cup {i[w]}]
    /\ first' = FirstLoad(w, i[w])
    /\ LET nx == NaiveAdvance(w)
       IN  /\ pc' = [pc EXCEPT ![w] = nx.pc]
           /\ i' = [i EXCEPT ![w] = nx.i]
           /\ j' = [j EXCEPT ![w] = nx.j]
    /\ UNCHANGED <<params, start, end, ii, jj, acc, todo, visits, sent>>

\* ----------------------------------------------------- the tiled kernels
\* openmp_tiled_mvm: a thread is handed one (i, j) of the collapsed tile loops
OmpTakeTile(w) ==
    /\ program_type = 4
    /\ pc[w] = "take"
    /\ \E it \in Handout :
          /\ todo' = todo \ {it}
          /\ i' = [i EXCEPT ![w] = it[1]]
          /\ j' = [j EXCEPT ![w] = it[2]]
          /\ ii' = [ii EXCEPT ![w] = it[1]]
          /\ jj' = [jj EXCEPT ![w] = it[2]]
    /\ pc' = [pc EXCEPT ![w] = "for_jj"]
    /\ UNCHANGED <<params, result, start, end, acc, touched, visits, sent, first>>

\* mpi_tiled_mvm: for (i = start; i < end; i += tile_size) for (j = 0; ...
MpiTileRow(w) ==
    /\ program_type = 5
    /\ pc[w] = "for_i"
    /\ i[w] < end[w]
    /\ j' = [j EXCEPT ![w] = 0]
    /\ ii' = [ii EXCEPT ![w] = i[w]]
    /\ jj' = [jj EXCEPT ![w] = 0]
    /\ pc' = [pc EXCEPT ![w] = "for_jj"]
    /\ UNCHANGED <<params, result, start, end, i, acc, todo, touched, visits, sent, first>>

\* the loop variables after the body at (ii, jj): jj++, ii++, then the next tile; a
\* loop variable whose loop has ended is out of scope and kept as 0
TiledAdvance(w) ==
    IF jj[w] + 1 < j[w] + tile_size
    THEN [pc |-> "for_jj", i |-> i[w], j |-> j[w], ii |-> ii[w], jj |-> jj[w] + 1]
    ELSE IF ii[w] + 1 < i[w] + tile_size
    THEN [pc |-> "for_jj", i |-> i[w], j |-> j[w], ii |-> ii[w] + 1, jj |-> j[w]]
    ELSE IF program_type = 4
    THEN [pc |-> "take", i |-> 0, j |-> 0, ii |-> 0, jj |-> 0]
    ELSE IF j[w] + tile_size < N
    THEN [pc |-> "for_jj", i |-> i[w], j |-> j[w] + tile_size, ii |-> i[w],
          jj |-> j[w] + tile_size]
    ELSE [pc |-> "for_i", i |-> i[w] + tile_size, j |-> 0, ii |-> 0, jj |-> 0]

\* openmp_tiled_mvm, result[ii] += ... : the load of result[ii], which the threads share
TiledLoad(w) ==
    /\ program_type = 4
    /\ pc[w] = "for_jj"
    /\ acc' = [acc EXCEPT ![w] = ReadResult(w, ii[w])]
    /\ touched' = [touched EXCEPT ![w] = @ \cup {ii[w]}]
    /\ first' = FirstLoad(w, ii[w])
    /\ pc' = [pc EXCEPT ![w] = "store"]
    /\ UNCHANGED <<params, result, start, end, i, j, ii, jj, todo, visits, sent>>

\* openmp_tiled_mvm, result[ii] += matrix[ii][jj] * vector[jj] : the store, then the
\* loop steps
TiledStore(w) ==
    /\ program_type = 4
    /\ pc[w] = "store"
    /\ result' = WriteResult(w, ii[w], acc[w] + Term(w, ii[w], jj[w]))
    /\ visits' = [visits EXCEPT ![Buf(w)][<<ii[w], jj[w]>>] = @ + 1]
    /\ LET nx == TiledAdvance(w)
       IN  /\ pc' = [pc EXCEPT ![w] = nx.pc]
           /\ i' = [i EXCEPT ![w] = nx.i]
           /\ j' = [j EXCEPT ![w] = nx.j]
           /\ ii' = [ii EXCEPT ![w] = nx.ii]
           /\ jj' = [jj EXCEPT ![w] = nx.jj]
    /\ acc' = [acc EXCEPT ![w] = 0]
    /\ UNCHANGED <<params, start, end, todo, touched, sent, first>>

\* mpi_tiled_mvm, result[ii] += matrix[ii][jj] * vector[jj] : one step, the buffer is
\* the rank's own
TiledAdd(w) ==
    /\ program_type = 5
    /\ pc[w] = "for_jj"
    /\ result' = WriteResult(w, ii[w], ReadResult(w, ii[w]) + Term(w, ii[w], jj[w]))
    /\ visits' = [visits EXCEPT ![Buf(w)][<<ii[w], jj[w]>>] = @ + 1]
    /\ touched' = [touched EXCEPT ![w] = @ \cup {ii[w]}]
    /\ first' = FirstLoad(w, ii[w])
    /\ LET nx == TiledAdvance(w)
       IN  /\ pc' = [pc EXCEPT ![w] = nx.pc]
           /\ i' = [i EXCEPT ![w] = nx.i]
           /\ j' = [j EXCEPT ![w] = nx.j]
           /\ ii' = [ii EXCEPT ![w] = nx.ii]
           /\ jj' = [jj EXCEPT ![w] = nx.jj]
    /\ UNCHANGED <<params, start, end, acc, todo, sent>>

\* an access outside the arrays is undefined: the process may be killed at it
Fault(w) ==
    /\ Tiled
    /\ pc[w] = "for_jj"
    /\ OutOfRange(ii[w], jj[w])
    /\ pc' = [pc EXCEPT ![w] = "crashed"]
    /\ UNCHANGED <<params, result, start, end, i, j, ii, jj, acc, todo, touched,
                   visits, sent, first>>

\* ------------------------------------------------------------ MPI_Allgather
\* mutant: the rank contributes the start of its buffer (sendbuf = result)
OwnChunkFromStart(w) ==
    [k \in 1..ChunkLen(N, size) |-> result[w][k - 1]]

\* the chunk of rank w in its own buffer (MPI_IN_PLACE)
OwnChunk(w) ==
    [k \in 1..ChunkLen(N, size) |-> result[w][w * ChunkLen(N, size) + k - 1]]

\* mpi_mvm, mpi_tiled_mvm: the row loop ends, the rank enters MPI_Allgather
GatherEnter(w) ==
    /\ Distributed
    /\ pc[w] = "for_i"
    /\ i[w] >= end[w]
    /\ sent' = [sent EXCEPT ![w] = OwnChunk(w)]
    /\ pc' = [pc EXCEPT ![w] = "gather"]
    /\ UNCHANGED <<params, result, start, end, i, j, ii, jj, acc, todo, touched,
                   visits, first>>

\* the buffer of rank w once the chunks of all ranks have arrived
Gathered(w) ==
    LET len == ChunkLen(N, size)
    IN  [a \in 0..(N - 1) |->
           IF a < size * len /\ (a \div len) # w
           THEN sent[a \div len][(a % len) + 1]
           ELSE result[w][a]]

\* MPI_Allgather returns on rank w: every rank has entered it
GatherReturn(w) ==
    /\ Distributed
    /\ pc[w] = "gather"
    /\ \A q \in Workers : pc[q] \in {"gather", "ret"}
    /\ result' = [result EXCEPT ![w] = Gathered(w)]
    /\ pc' = [pc EXCEPT ![w] = "ret"]
    /\ UNCHANGED <<params, start, end, i, j, ii, jj, acc, todo, touched, visits, sent, first>>

\* ---------------------------------------------------------- specifications
\* the five kernels as run_programs calls them
InitKernels ==
    KernelInit(1..5, {2 * SmallTile}, {SmallTile}, 1..MaxThreads, 1..MaxProcs,
               0..MaxSeed, Junks)

NextKernels ==
    \/ \E w \in Workers : MpiEnter(w)
    \/ \E w \in Workers : RowBegin(w)
    \/ \E w \in Workers : SeqReturn(w)
    \/ \E w \in Workers : OmpTakeRow(w)
    \/ \E w \in Workers : OmpTakeTile(w)
    \/ \E w \in Workers : OmpJoin(w)
    \/ \E w \in Workers : NaiveLoad(w)
    \/ \E w \in Workers : NaiveStore(w)
    \/ \E w \in Workers : NaiveAdd(w)
    \/ \E w \in Workers : MpiTileRow(w)
    \/ \E w \in Workers : TiledLoad(w)
    \/ \E w \in Workers : TiledStore(w)
    \/ \E w \in Workers : TiledAdd(w)
    \/ \E w \in Workers : GatherEnter(w)
    \/ \E w \in Workers : GatherReturn(w)

SpecKernels == InitKernels /\ [][NextKernels]_vars

\* the MPI kernels for every N up to MaxRows, also where the tile edge or the number
\* of ranks does not divide N
InitMpi ==
    KernelInit({3, 5}, 1..MaxRows, {SmallTile}, {1}, 1..MaxRanks, {MaxSeed},
               Junks)

NextMpi ==
    \/ \E w \in Workers : MpiEnter(w)
    \/ \E w \in Workers : RowBegin(w)
    \/ \E w \in Workers : NaiveAdd(w)
    \/ \E w \in Workers : MpiTileRow(w)
    \/ \E w \in Workers : TiledAdd(w)
    \/ \E w \in Workers : Fault(w)
    \/ \E w \in Workers : GatherEnter(w)
    \/ \E w \in Workers : GatherReturn(w)

SpecMpi == InitMpi /\ [][NextMpi]_vars

\* the loop nests of the tiled kernels run by one worker, for every N up to MaxRows and
\* every tile edge up to MaxTile
InitTile ==
    KernelInit({4, 5}, 1..MaxRows, 1..MaxTile, {1}, {1}, 0..MaxSeed, Junks)

NextTile ==
    \/ \E w \in Workers : MpiEnter(w)
    \/ \E w \in Workers : OmpTakeTile(w)
    \/ \E w \in Workers : OmpJoin(w)
    \/ \E w \in Workers : MpiTileRow(w)
    \/ \E w \in Workers : TiledLoad(w)
    \/ \E w \in Workers : TiledStore(w)
    \/ \E w \in Workers : TiledAdd(w)
    \/ \E w \in Workers : Fault(w)
    \/ \E w \in Workers : GatherEnter(w)
    \/ \E w \in Workers : GatherReturn(w)

SpecTile == InitTile /\ [][NextTile]_vars

\* the row ranges of the MPI kernels for every N up to MaxPartRows and up to
\* MaxPartProcs ranks
InitPart ==
    KernelInit({3, 5}, 1..MaxPartRows, {SmallTile}, {1}, 1..MaxPartProcs, {0}, {0})

NextPart ==
    \/ \E w \in Workers : MpiEnter(w)

SpecPart == InitPart /\ [][NextPart]_vars

\* ------------------------------------------------- the driver: main, run_programs
\* the driver specification leaves the contents of the arrays out: nothing in main or
\* run_programs reads them
KernelIdle ==
    /\ N = 0
    /\ tile_size = TILE_SIZE
    /\ matrix = <<>>
    /\ vector = <<>>
    /\ junk = <<>>
    /\ result = <<>>
    /\ pc = <<>>
    /\ start = <<>>
    /\ end = <<>>
    /\ i = <<>>
    /\ j = <<>>
    /\ ii = <<>>
    /\ jj = <<>>
    /\ acc = <<>>
    /\ todo = {}
    /\ touched = <<>>
    /\ visits = <<>>
    /\ sent = <<>>
    /\ first = <<>>

\* what a driver step leaves alone: the selected program, the number of processes and
\* the state of a kernel call
fixed == <<program_type, size, N, tile_size, matrix, vector, junk, result, pc, start,
           end, i, j, ii, jj, acc, todo, touched, visits, sent, first>>

\* the switch with the first timestamp taken before the barrier and the second one
\* before the closing barrier
BodyTimerOutside(t) ==
    IF t \in {3, 5}
    THEN <<"start", "barrier", "kernel", "end", "barrier", "print">>
    ELSE <<"start", "kernel", "end", "print">>

\* the statements of the case of run_programs' switch, in program order
Body(t) ==
    IF t \in {3, 5}
    THEN <<"barrier", "start", "kernel", "barrier", "end", "print">>
    ELSE <<"start", "kernel", "end", "print">>

\* the label the case prints
Label(t) ==
    CASE t = 1 -> "Sequential"
      [] t = 2 -> "OpenMP"
      [] t = 3 -> "MPI"
      [] t = 4 -> "OpenMP Tiled"
      [] t = 5 -> "MPI Tiled"

\* the statement process r is at
Stmt(r) == IF dpc[r] = "body" THEN Body(program_type)[step[r]] ELSE "none"

\* the place of the kernel call in the case
KernelIndex(t) == CHOOSE k \in 1..Len(Body(t)) : Body(t)[k] = "kernel"

\* the largest row the tile loops  for (i = s; i < e; i += t) for (ii = i; ii < i + t; ..
\* reach, -1 where the row loop does not run
LastTileRow(s, e, t) ==
    IF e <= s THEN -1 ELSE s + t * ((e - s - 1) \div t) + t - 1

\* the tiled kernel of type ty, called for n rows on rank `rank` of sz, leaves the arrays
KernelOverruns(ty, n, sz, rank, t) ==
    CASE ty = 4 -> n % t # 0
      [] ty = 5 ->
            /\ PartStart(n, sz, rank) < PartEnd(n, sz, rank)
            /\ \/ n % t # 0
               \/ LastTileRow(PartStart(n, sz, rank), PartEnd(n, sz, rank), t) >= n
      [] OTHER -> FALSE

\* no block is allocated
NoBlocks == [matrix |-> 0, row |-> 0, vector |-> 0]

\* allocate_matrix(n, n) on heap h: got = -1, the malloc of the pointer array fails;
\* got in 0..n-1, the malloc of row got fails and NULL is returned with the pointer
\* array and the rows before it allocated; got = n, every malloc succeeds
AllocateMatrix(h, n, got) ==
    IF got < 0 THEN h
    ELSE [h EXCEPT !.matrix = @ + 1, !.row = @ + got]

\* allocate_vector(n) succeeds on heap h
AllocateVec(h) == [h EXCEPT !.vector = @ + 1]

\* free(p) for a block p of the kind: the one block, nothing it points to
FreeBlock(h, kind) == [h EXCEPT ![kind] = @ - 1]

\* the processes of the variants without MPI calls in their kernel never wait for one
\* another before MPI_Finalize: fewer of them are started
InitDriver ==
    /\ program_type \in 1..5
    /\ size \in 1..(IF Distributed THEN MaxProcs ELSE MaxRanks)
    /\ KernelIdle
    /\ dpc = [r \in Workers |-> "header"]
    /\ curN = [r \in Workers |-> FIRST_SIZE]
    /\ step = [r \in Workers |-> 0]
    /\ wait = [r \in Workers |-> FALSE]
    /\ ncoll = [r \in Workers |-> 0]
    /\ gatherN = [r \in Workers |-> 0]
    /\ nfail = 0
    /\ failed = [r \in Workers |-> {}]
    /\ sink = [r \in Workers |-> <<>>]
    /\ prebar = [r \in Workers |-> 0]
    /\ kdone = [r \in Workers |-> 0]
    /\ nstart = [r \in Workers |-> 0]
    /\ nend = [r \in Workers |-> 0]
    /\ heap = [r \in Workers |-> NoBlocks]

\* main: fprintf of the header line, then the size loop starts
WriteHeader(r) ==
    /\ dpc[r] = "header"
    /\ sink' = [sink EXCEPT ![r] = Append(@, [label |-> "header", n |-> 0])]
    /\ curN' = [curN EXCEPT ![r] = FIRST_SIZE]
    /\ dpc' = [dpc EXCEPT ![r] = IF FIRST_SIZE <= MAX_SIZE THEN "alloc"
                                 ELSE "finalize"]
    /\ UNCHANGED <<fixed, heap, step, wait, ncoll, gatherN, nfail, failed, prebar,
                   kdone, nstart, nend>>

\* main: run_programs has returned: N *= 2 and the loop test; after the loop fclose and
\* MPI_Finalize
AfterCall(r) ==
    /\ curN' = [curN EXCEPT ![r] = 2 * @]
    /\ dpc' = [dpc EXCEPT ![r] = IF 2 * curN[r] <= MAX_SIZE THEN "alloc"
                                 ELSE "finalize"]
    /\ step' = [step EXCEPT ![r] = 0]

\* run_programs: an allocation fails and run_programs returns
AllocFails(r, h) ==
    /\ dpc[r] = "alloc"
    /\ nfail < MaxFailures
    /\ nfail' = nfail + 1
    /\ failed' = [failed EXCEPT ![r] = @ \cup {curN[r]}]
    /\ heap' = [heap EXCEPT ![r] = h]
    /\ AfterCall(r)
    /\ UNCHANGED <<fixed, wait, ncoll, gatherN, sink, prebar, kdone, nstart, nend>>

\* run_programs: allocate_matrix(N, N) and both allocate_vector(N) succeed, fill_random,
\* the switch is entered
Allocate(r) ==
    /\ dpc[r] = "alloc"
    /\ dpc' = [dpc EXCEPT ![r] = "body"]
    /\ step' = [step EXCEPT ![r] = 1]
    /\ heap' = [heap EXCEPT ![r] =
                  AllocateVec(AllocateVec(AllocateMatrix(@, curN[r], curN[r])))]
    /\ UNCHANGED <<fixed, curN, wait, ncoll, gatherN, nfail, failed, sink, prebar,
                   kdone, nstart, nend>>

\* run_programs: allocate_matrix returns NULL, at its first malloc (got = -1) or at
\* the malloc of row got
AllocMatrixFail(r) ==
    \E got \in -1..MaxFailRow :
        /\ got < curN[r]
        /\ AllocFails(r, AllocateMatrix(heap[r], curN[r], got))

\* run_programs: allocate_vector returns NULL for the vector; free(matrix)
AllocVectorFail(r) ==
    AllocFails(r, FreeBlock(AllocateMatrix(heap[r], curN[r], curN[r]), "matrix"))

\* run_programs: allocate_vector returns NULL for the result; free(matrix),
\* free(vector)
AllocResultFail(r) ==
    AllocFails(r, FreeBlock(FreeBlock(
                     AllocateVec(AllocateMatrix(heap[r], curN[r], curN[r])),
                     "matrix"), "vector"))

\* MPI_Barrier is called
BarrierEnter(r) ==
    /\ Stmt(r) = "barrier"
    /\ ~wait[r]
    /\ wait' = [wait EXCEPT ![r] = TRUE]
    /\ ncoll' = [ncoll EXCEPT ![r] = @ + 1]
    /\ prebar' = [prebar EXCEPT ![r] =
                    IF step[r] < KernelIndex(program_type) THEN @ + 1 ELSE @]
    /\ UNCHANGED <<fixed, heap, dpc, curN, step, gatherN, nfail, failed, sink, kdone,
                   nstart, nend>>

\* start_time = get_time()
TimerStart(r) ==
    /\ Stmt(r) = "start"
    /\ nstart' = [nstart EXCEPT ![r] = @ + 1]
    /\ step' = [step EXCEPT ![r] = @ + 1]
    /\ UNCHANGED <<fixed, heap, dpc, curN, wait, ncoll, gatherN, nfail, failed, sink,
                   prebar, kdone, nend>>

\* the kernel call: the kernels of one process return; the MPI kernels do their rows
\* and call MPI_Allgather
KernelCall(r) ==
    /\ Stmt(r) = "kernel"
    /\ ~wait[r]
    /\ IF Distributed
       THEN /\ wait' = [wait EXCEPT ![r] = TRUE]
            /\ ncoll' = [ncoll EXCEPT ![r] = @ + 1]
            /\ gatherN' = [gatherN EXCEPT ![r] = curN[r]]
            /\ UNCHANGED <<step, kdone>>
       ELSE /\ kdone' = [kdone EXCEPT ![r] = @ + 1]
            /\ step' = [step EXCEPT ![r] = @ + 1]
            /\ UNCHANGED <<wait, ncoll, gatherN>>
    /\ UNCHANGED <<fixed, heap, dpc, curN, nfail, failed, sink, prebar, nstart, nend>>

\* the kernel call: a tiled kernel that leaves the arrays may be killed there
KernelFault(r) ==
    /\ Stmt(r) = "kernel"
    /\ ~wait[r]
    /\ KernelOverruns(program_type, curN[r], size, r, TILE_SIZE)
    /\ dpc' = [dpc EXCEPT ![r] = "crashed"]
    /\ UNCHANGED <<fixed, heap, curN, step, wait, ncoll, gatherN, nfail, failed, sink,
                   prebar, kdone, nstart, nend>>

\* every process has entered the collective call process r is in
AllArrived(r) == \A q \in Workers : ncoll[q] >= ncoll[r]

\* a collective call returns (MPI_Barrier, or the MPI_Allgather that ends the kernel)
CollReturn(r) ==
    /\ dpc[r] = "body"
    /\ wait[r]
    /\ AllArrived(r)
    /\ wait' = [wait EXCEPT ![r] = FALSE]
    /\ kdone' = [kdone EXCEPT ![r] = IF Stmt(r) = "kernel" THEN @ + 1 ELSE @]
    /\ step' = [step EXCEPT ![r] = @ + 1]
    /\ UNCHANGED <<fixed, heap, dpc, curN, ncoll, gatherN, nfail, failed, sink, prebar,
                   nstart, nend>>

\* the processes are in one MPI_Allgather with different recvcounts: the call is
\* erroneous, MPI may abort the job instead of returning
MpiAbort ==
    /\ \E r \in Workers :
          /\ Stmt(r) = "kernel"
          /\ wait[r]
          /\ AllArrived(r)
          /\ \E q \in Workers : gatherN[q] # gatherN[r]
    /\ dpc' = [q \in Workers |-> "aborted"]
    /\ UNCHANGED <<fixed, heap, curN, step, wait, ncoll, gatherN, nfail, failed, sink,
                   prebar, kdone, nstart, nend>>

\* end_time = get_time(); total_time = end_time - start_time
TimerEnd(r) ==
    /\ Stmt(r) = "end"
    /\ nend' = [nend EXCEPT ![r] = @ + 1]
    /\ step' = [step EXCEPT ![r] = @ + 1]
    /\ UNCHANGED <<fixed, heap, dpc, curN, wait, ncoll, gatherN, nfail, failed, sink,
                   prebar, kdone, nstart>>

\* fprintf(fp, "<label>, %d, %.6f\n", N, total_time); break
PrintRecord(r) ==
    /\ Stmt(r) = "print"
    /\ sink' = [sink EXCEPT ![r] =
                  Append(@, [label |-> Label(program_type), n |-> curN[r]])]
    /\ dpc' = [dpc EXCEPT ![r] = "free"]
    /\ UNCHANGED <<fixed, heap, curN, step, wait, ncoll, gatherN, nfail, failed, prebar,
                   kdone, nstart, nend>>

\* free(matrix); free(vector); free(result); run_programs returns
Free(r) ==
    /\ dpc[r] = "free"
    /\ heap' = [heap EXCEPT ![r] =
                  FreeBlock(FreeBlock(FreeBlock(@, "matrix"), "vector"), "vector")]
    /\ AfterCall(r)
    /\ UNCHANGED <<fixed, wait, ncoll, gatherN, nfail, failed, sink, prebar, kdone,
                   nstart, nend>>

\* MPI_Finalize returns once every process has called it; main returns
Finalize(r) ==
    /\ dpc[r] = "finalize"
    /\ \A q \in Workers : dpc[q] \in {"finalize", "done"}
    /\ dpc' = [dpc EXCEPT ![r] = "done"]
    /\ UNCHANGED <<fixed, heap, curN, step, wait, ncoll, gatherN, nfail, failed, sink,
                   prebar, kdone, nstart, nend>>

NextDriver ==
    \/ \E r \in Workers : WriteHeader(r)
    \/ \E r \in Workers : Allocate(r)
    \/ \E r \in Workers : AllocMatrixFail(r)
    \/ \E r \in Workers : AllocVectorFail(r)
    \/ \E r \in Workers : AllocResultFail(r)
    \/ \E r \in Workers : BarrierEnter(r)
    \/ \E r \in Workers : TimerStart(r)
    \/ \E r \in Workers : KernelCall(r)
    \/ \E r \in Workers : KernelFault(r)
    \/ \E r \in Workers : CollReturn(r)
    \/ MpiAbort
    \/ \E r \in Workers : TimerEnd(r)
    \/ \E r \in Workers : PrintRecord(r)
    \/ \E r \in Workers : Free(r)
    \/ \E r \in Workers : Finalize(r)

SpecDriver == InitDriver /\ [][NextDriver]_vars

\* ------------------------------------------------------------------ claims
RECURSIVE SeqAcc(_, _)
\* sequential_mvm: result[a] after the columns 0..k-1 of row a
SeqAcc(a, k) ==
    IF k = 0 THEN 0 ELSE SeqAcc(a, k - 1) + matrix[a][k - 1] * vector[k - 1]

\* what sequential_mvm leaves in result[a]
SeqResult(a) == SeqAcc(a, N)

\* every worker has returned from the kernel
AllReturned == \A w \in Workers : pc[w] = "ret"

\* C1: once a kernel has returned (on every rank, with every thread joined), every
\* element result[a] of every process holds the value sequential_mvm computes
C1_SameAsSequential ==
    AllReturned =>
       \A b \in Bufs : \A a \in 0..(N - 1) : result[b][a] = SeqResult(a)

\* the threads that have read or written result[a]
Writers(a) == {w \in Workers : a \in touched[w]}

\* C3: in openmp_mvm and openmp_tiled_mvm no element result[a] is read-modified-written
\* by two different threads
C3_OneThreadPerElement ==
    program_type \in {2, 4} =>
       \A a \in 0..(N - 1) : Cardinality(Writers(a)) <= 1

\* C4: in the tiled kernels, result[a] is 0 when the first tile contribution is added
\* to it
C4_ZeroBeforeFirstTile ==
    Tiled => \A b \in Bufs : \A a \in 0..(N - 1) : first[b][a] \in {-1, 0}

\* C5: where N is no multiple of the tile edge, the body of the tiled loops is never
\* entered with a row or column index beyond N - 1
C5_NoAccessBeyondN ==
    (Tiled /\ N % tile_size # 0) =>
       \A w \in Workers :
          pc[w] \in {"for_jj", "store"} => ~OutOfRange(ii[w], jj[w])

\* C6: where the tile edge divides N, openmp_tiled_mvm does the accumulation step at
\* most once for every pair inside the matrix, for no pair outside it, and exactly
\* once for every pair inside once it has returned
C6_TilingCoverage ==
    (program_type = 4 /\ N % tile_size = 0) =>
       \A p \in Pairs :
          /\ OutOfRange(p[1], p[2]) => visits[0][p] = 0
          /\ visits[0][p] <= 1
          /\ (AllReturned /\ ~OutOfRange(p[1], p[2])) => visits[0][p] = 1

\* C6 witness: openmp_tiled_mvm has returned from a matrix of several tiles
C6_Witness ==
    /\ program_type = 4
    /\ tile_size > 1
    /\ N >= 2 * tile_size
    /\ N % tile_size = 0
    /\ AllReturned
    /\ \A a \in 0..(N - 1) : \A b \in 0..(N - 1) : visits[0][<<a, b>>] = 1

\* the rows rank w computes: [start, end)
Range(w) == {a \in 0..(N - 1) : start[w] <= a /\ a < end[w]}

\* every rank has computed its row range
AllEntered == \A w \in Workers : pc[w] # "call"

\* C2: the row ranges of the ranks are pairwise disjoint and their union is [0, N)
C2_PartitionCoverage ==
    AllEntered =>
       /\ \A w \in Workers : 0 <= start[w] /\ start[w] <= end[w] /\ end[w] <= N
       /\ \A v, w \in Workers : v # w => Range(v) \cap Range(w) = {}
       /\ UNION {Range(w) : w \in Workers} = 0..(N - 1)

\* C2 witness: more ranks than one, a remainder, and every range computed
C2_Witness ==
    /\ AllEntered
    /\ size > 1
    /\ N % size # 0
    /\ N > size

\* C7: where size divides N, once MPI_Allgather has returned on every rank all ranks
\* hold the same result vector, and its chunk r is made of rows rank r has computed,
\* with the values rank r contributed
C7_GatherIdentical ==
    (Distributed /\ N % size = 0 /\ AllReturned) =>
       /\ \A v, w \in Workers : result[v] = result[w]
       /\ \A w, r \in Workers : \A k \in 1..ChunkLen(N, size) :
             /\ result[w][r * ChunkLen(N, size) + k - 1] = sent[r][k]
             /\ (r * ChunkLen(N, size) + k - 1) \in touched[r]

\* C7 witness: several ranks, each with several rows, have all returned
C7_Witness ==
    /\ Distributed
    /\ size > 1
    /\ N % size = 0
    /\ N > size
    /\ AllReturned

\* every process has left main
AllDone == \A r \in Workers : dpc[r] = "done"

\* C8: in the distributed variants a process takes its starting timestamp only after
\* every process has reached the barrier in front of the kernel, and its ending
\* timestamp only after every process has finished the kernel
C8_TimestampsAfterBarriers ==
    (Distributed /\ dpc # <<>>) =>
        \A r \in Workers : \A q \in Workers :
            /\ prebar[q] >= nstart[r]
            /\ kdone[q] >= nend[r]

\* C8 happens: several processes, and one of them has taken its ending timestamp for
\* the second size
C8_Witness ==
    /\ Distributed
    /\ dpc # <<>>
    /\ size >= 2
    /\ \E r \in Workers : nend[r] >= 2

\* C9: after an allocation failure on a process no record is written for that size by
\* that process, no process is killed, and the run goes on to the end: every process
\* can take a step until all of them have left main
C9_AllocationFailureNotFatal ==
    (dpc # <<>> /\ nfail > 0) =>
        /\ \A r \in Workers : \A k \in 1..Len(sink[r]) : sink[r][k].n \notin failed[r]
        /\ \A r \in Workers : dpc[r] \notin {"aborted", "crashed"}
        /\ AllDone \/ ENABLED NextDriver

\* the sizes main's loop visits from n on
RECURSIVE SizesFrom(_)
SizesFrom(n) == IF n > MAX_SIZE THEN {} ELSE {n} \cup SizesFrom(2 * n)

\* the number of lines rec the processes 0..r have written to results.csv
RECURSIVE Written(_, _)
Written(rec, r) ==
    IF r < 0 THEN 0
    ELSE Cardinality({k \in 1..Len(sink[r]) : sink[r][k] = rec}) + Written(rec, r - 1)

\* C10: after a run without allocation failure results.csv holds one header line and
\* one record per size, labelled with the selected variant, in increasing order of size
C10_OneRecordPerSize ==
    (dpc # <<>> /\ AllDone /\ nfail = 0) =>
        /\ Written([label |-> "header", n |-> 0], size - 1) = 1
        /\ \A n \in SizesFrom(FIRST_SIZE) :
              Written([label |-> Label(program_type), n |-> n], size - 1) = 1
        /\ \A r \in Workers : \A k \in 2..Len(sink[r]) : sink[r][k - 1].n < sink[r][k].n

\* process r is in main outside a call of run_programs
BetweenCalls(r) == dpc[r] \in {"header", "alloc", "finalize", "done"}

\* C11: whenever run_programs has returned, normally or after an allocation failure,
\* every block allocated during the call is freed: the pointer array of the matrix,
\* its rows, the vector and the result
C11_NothingCarriesOver ==
    dpc # <<>> => \A r \in Workers : BetweenCalls(r) => heap[r] = NoBlocks

\* the rows ii at which mpi_tiled_mvm does result[ii] += ... for the row range [s, e),
\* n columns and tile edge t: for (i = s; i < e; i += t) for (j = 0; j < n; j += t)
\* for (ii = i; ii < i + t; ii++)
TileRows(s, e, n, t) ==
    IF n <= 0 THEN {}
    ELSE UNION {i0..(i0 + t - 1) : i0 \in {x \in s..(e - 1) : (x - s) % t = 0}}

\* process r has run the loops of its kernel call for the size curN[r]
InKernelOrAfter(r) ==
    \/ dpc[r] = "body" /\ step[r] > KernelIndex(program_type)
    \/ Stmt(r) = "kernel" /\ wait[r]

\* C12: for every size the driver runs and every number of processes, a rank of
\* mpi_tiled_mvm accumulates only into the rows of its own partition, start <= ii < end
C12_OwnRowsOnly ==
    (dpc # <<>> /\ program_type = 5) =>
        \A r \in Workers :
            InKernelOrAfter(r) =>
                \A a \in TileRows(PartStart(curN[r], size, r), PartEnd(curN[r], size, r),
                                  curN[r], TILE_SIZE) :
                    /\ PartStart(curN[r], size, r) <= a
                    /\ a < PartEnd(curN[r], size, r)

====
